---------------------------- MODULE Spec2Model ----------------------------
(***************************************************************************)
(* DupliCheck: the duplicate detection engine (src/core/detector.py), the  *)
(* geometry comparator (src/core/geometry_checker.py) and the priority     *)
(* resolver (src/core/priority_resolver.py) as a state machine.            *)
(*                                                                         *)
(* Scores are fixed-point: the float 1.0 is ScoreOne, 0.5 is ScoreOne/2.   *)
(* A group list is a sequence of DuplicateGroup records; a reference to a  *)
(* group object held in feature_to_group is the group's index in the list  *)
(* `consolidated` (the code shares the object, the model shares the index).*)
(***************************************************************************)
EXTENDS Integers, Sequences, FiniteSets, TLC

\* ------------------------------------------------------------------ bounds
\* Feature ids are 0 .. NumFeatures-1.
NumFeatures == 4
\* Longest list of groups handed to _consolidate_groups on its own.
MaxGroups == 3
\* --------------------------------------------------------------- constants
\* Optional[int] = None: a value that is no feature id (and no score).
None == -1
\* The float 1.0 (DuplicateGroup.confidence_score default) in fixed point.
ScoreOne == 100

VARIABLES
    layer,             \* the QgsVectorLayer: see Layers
    config,            \* the DuplicateDetector constructor's arguments
    pc,                \* position in detect() / _consolidate_groups / the resolver
    features,          \* detect(): the in-scope feature ids, in iteration order
    spatial_index,     \* self._spatial_index: the ids indexed, None before any build
    feature_cache,     \* self._feature_cache: the ids cached
    stored_groups,     \* self._groups
    groups,            \* the list `groups` of the detection pass and of detect()
    processed,         \* _detect_by_tolerance: the set `processed`
    score,             \* _detect_by_tolerance: the local `score`, None while unbound
    scanPos,           \* _detect_by_tolerance: 1-based position of the loop
    progress,          \* the values handed to the progress callback, in order
    returned,          \* the list the last finished call returned
    runs,              \* number of detect() calls that returned
    firstResult,       \* what the first detect() call returned
    consolidated,      \* _consolidate_groups: the list `consolidated`
    feature_to_group,  \* _consolidate_groups: fid -> index in consolidated (0: absent)
    pending,           \* groups of the input list not yet visited by the loop
    nIn,               \* number of input groups visited by the loop
    cur                \* the input group the loop visited last (<<>> before)

envVars == <<layer, config>>
scanVars == <<groups, processed, score, scanPos>>
detVars == <<features, spatial_index, feature_cache, stored_groups, progress,
             returned, runs, firstResult>>
consVars == <<consolidated, feature_to_group, pending, nIn, cur>>
vars == <<layer, config, pc, features, spatial_index, feature_cache, stored_groups,
          groups, processed, score, scanPos, progress, returned, runs, firstResult,
          consolidated, feature_to_group, pending, nIn, cur>>

Fids == 0 .. (NumFeatures - 1)

Min(a, b) == IF a <= b THEN a ELSE b
Max(a, b) == IF a >= b THEN a ELSE b

\* ------------------------------------------------------------ DuplicateGroup
DuplicateGroup(ids, dtype, conf, reason, keep, meta) ==
    [feature_ids |-> ids, detection_type |-> dtype, confidence_score |-> conf,
     match_reason |-> reason, suggested_keep |-> keep, metadata |-> meta]

\* A plausible slip: merge_with replaces the id set instead of updating it.
merge_with_replace(self, other) ==
    [self EXCEPT !.feature_ids = other.feature_ids,
                 !.confidence_score = Min(self.confidence_score, other.confidence_score)]

\* A plausible slip: the merged group takes over the other group's suggestion
\* and metadata.
merge_with_adopts_other(self, other) ==
    [self EXCEPT !.feature_ids = self.feature_ids \cup other.feature_ids,
                 !.confidence_score = Min(self.confidence_score, other.confidence_score),
                 !.suggested_keep = other.suggested_keep,
                 !.metadata = other.metadata]

\* A plausible slip: the merge forgets to lower the confidence.
merge_with_keep_confidence(self, other) ==
    [self EXCEPT !.feature_ids = self.feature_ids \cup other.feature_ids]

\* DuplicateGroup.merge_with: union of the id sets, the lower confidence.
merge_with(self, other) ==
    [self EXCEPT !.feature_ids = self.feature_ids \cup other.feature_ids,
                 !.confidence_score = Min(self.confidence_score, other.confidence_score)]

\* ------------------------------------------------------- _consolidate_groups
\* The members of `group` already owned by an accepted group: the inner loop
\* `for fid in group.feature_ids` stops at the first of them in the set's
\* iteration order, which Python leaves unspecified, so any of them may be hit.
OwnedMembers(f2g, group) == {fid \in group.feature_ids : f2g[fid] # 0}

\* The loop body for an input group whose first owned member is `hit`:
\* merge into the group owning `hit` and point every member of `group` at it.
MergeIntoExisting(cons, f2g, group, hit) ==
    LET k == f2g[hit]
    IN  [consolidated |-> [cons EXCEPT ![k] = merge_with(cons[k], group)],
         feature_to_group |->
             [fid \in DOMAIN f2g |-> IF fid \in group.feature_ids THEN k ELSE f2g[fid]]]

\* A plausible slip: a new group is put at the front of the list.
AcceptNew_front(cons, f2g, group) ==
    [consolidated |-> <<group>> \o cons,
     feature_to_group |->
         [fid \in DOMAIN f2g |->
             IF fid \in group.feature_ids THEN 1
             ELSE IF f2g[fid] = 0 THEN 0 ELSE f2g[fid] + 1]]

\* The loop body for an input group none of whose members is owned yet.
AcceptNew(cons, f2g, group) ==
    [consolidated |-> Append(cons, group),
     feature_to_group |->
         [fid \in DOMAIN f2g |->
             IF fid \in group.feature_ids THEN Len(cons) + 1 ELSE f2g[fid]]]


\* ------------------------------------------------------------------ geometry
\* A geometry lies on the x axis: kind "null", "point" (lo = hi), "multipoint"
\* (the two points lo < hi) or "polygon" (the rectangle [lo,hi] x [0,1]).  A
\* polygon also carries its ring orientation as digitised ("ccw" or "cw"),
\* which normalisation removes.  Distances are kept doubled (Dist2 = 2 * d)
\* so that centroids of integer geometries stay integers.
Geometry(kind, lo, hi, ring) == [kind |-> kind, lo |-> lo, hi |-> hi, ring |-> ring]
NullGeometry == Geometry("null", 0, 0, "none")
Point(x) == Geometry("point", x, x, "none")

isNull(g) == g.kind = "null"
isMultipart(g) == g.kind = "multipoint"
\* QgsGeometry.type(): 0 point, 2 polygon.
GeomType(g) == IF g.kind = "polygon" THEN 2 ELSE 0
area(g) == IF g.kind = "polygon" THEN g.hi - g.lo ELSE 0
\* Doubled x coordinate of the centroid.
Centroid2(g) == g.lo + g.hi
Abs(x) == IF x < 0 THEN 0 - x ELSE x

\* GeometryChecker._normalize_geometry: duplicate nodes removed and coordinates
\* snapped to the 1e-8 grid (both leave integer coordinates alone); a polygon
\* (type 2) gets its canonical ring orientation.
normalize_geometry(g) ==
    IF isNull(g) THEN g
    ELSE IF GeomType(g) = 2 THEN [g EXCEPT !.ring = "ccw"] ELSE g

\* GeometryChecker.hash_geometry: the 'NULL' sentinel, or the digest of the
\* normalised WKB; the digest is modelled by the normalised geometry itself
\* (md5 collisions are not modelled).
hash_geometry(g) == IF isNull(g) THEN NullGeometry ELSE normalize_geometry(g)

\* GeometryChecker._get_parts.
get_parts(g) ==
    IF isNull(g) THEN <<>>
    ELSE IF isMultipart(g) THEN <<Point(g.lo), Point(g.hi)>>
    ELSE <<g>>

CompareResult(m, s) == [match |-> m, score |-> s]

\* GeometryChecker._compare_wkb.
compare_wkb(g1, g2) ==
    IF hash_geometry(g1) = hash_geometry(g2)
    THEN CompareResult(TRUE, ScoreOne) ELSE CompareResult(FALSE, 0)

\* A plausible slip: the distance ratio is added instead of subtracted.
DistanceScore_sign(d2, tolerance) ==
    LET s == IF tolerance > 0
             THEN (ScoreOne * (2 * tolerance + d2)) \div (2 * tolerance)
             ELSE ScoreOne
    IN  Max(ScoreOne \div 2, s)

\* max(0.5, 1.0 - distance / tolerance) for a doubled distance d2.
DistanceScore(d2, tolerance) ==
    LET s == IF tolerance > 0
             THEN (ScoreOne * (2 * tolerance - d2)) \div (2 * tolerance)
             ELSE ScoreOne
    IN  Max(ScoreOne \div 2, s)

\* GeometryChecker._compare_centroid (a non-null geometry has a centroid).
compare_centroid(g1, g2, tolerance) ==
    LET d2 == Abs(Centroid2(g1) - Centroid2(g2))
    IN  IF isNull(g1) \/ isNull(g2) THEN CompareResult(FALSE, 0)
        ELSE IF d2 <= 2 * tolerance
             THEN CompareResult(TRUE, DistanceScore(d2, tolerance))
             ELSE CompareResult(FALSE, 0)

\* QgsGeometry.hausdorffDistance (doubled) over the vertices lo, hi.
Vertices(g) == {g.lo, g.hi}
SetMax(S) == CHOOSE m \in S : \A x \in S : x <= m
SetMin(S) == CHOOSE m \in S : \A x \in S : m <= x
Directed2(A, B) == SetMax({SetMin({2 * Abs(a - b) : b \in B}) : a \in A})
Hausdorff2(g1, g2) ==
    Max(Directed2(Vertices(g1), Vertices(g2)), Directed2(Vertices(g2), Vertices(g1)))

\* GeometryChecker._compare_hausdorff; `available` is whether the geometry
\* engine computes the distance (otherwise the call raises and the code falls
\* back to the centroid comparison).
compare_hausdorff(g1, g2, tolerance, available) ==
    IF ~available THEN compare_centroid(g1, g2, tolerance)
    ELSE LET d2 == Hausdorff2(g1, g2)
         IN  IF d2 <= 2 * tolerance
             THEN CompareResult(TRUE, DistanceScore(d2, tolerance))
             ELSE CompareResult(FALSE, 0)

\* QgsRectangle.isEmpty of a geometry's bounding box: no width or no height.
BBoxIsEmpty(g) == g.kind # "polygon" \/ g.hi <= g.lo

\* GeometryChecker._compare_bbox.  Both boxes are grown by the tolerance; the
\* boxes of two polygons have the same (grown) height, so the ratio of the
\* areas is the ratio of the widths: intersection ix over union ux.
compare_bbox(g1, g2, tolerance) ==
    IF BBoxIsEmpty(g1) \/ BBoxIsEmpty(g2) THEN CompareResult(FALSE, 0)
    ELSE LET xmin == Max(g1.lo, g2.lo) - tolerance
             xmax == Min(g1.hi, g2.hi) + tolerance
             ix   == xmax - xmin
             ux   == (g1.hi - g1.lo + 2 * tolerance) + (g2.hi - g2.lo + 2 * tolerance) - ix
         IN  IF xmin <= xmax /\ ux > 0 /\ 10 * ix > 9 * ux
             THEN CompareResult(TRUE, (ScoreOne * ix) \div ux)
             ELSE CompareResult(FALSE, 0)

\* GeometryChecker._compare_single: dispatch on compare_method
\* (0 WKB hash, 1 centroid, 2 Hausdorff, 3 bounding box, anything else WKB).
compare_single(g1, g2, tolerance, method, available) ==
    CASE method = 0 -> compare_wkb(g1, g2)
      [] method = 1 -> compare_centroid(g1, g2, tolerance)
      [] method = 2 -> compare_hausdorff(g1, g2, tolerance, available)
      [] method = 3 -> compare_bbox(g1, g2, tolerance)
      [] OTHER -> compare_wkb(g1, g2)

\* The first matching pair of parts, g1's parts outer, g2's inner.
RECURSIVE FirstPartMatch(_, _, _, _, _, _, _)
FirstPartMatch(parts1, parts2, i, j, tolerance, method, available) ==
    IF i > Len(parts1) THEN CompareResult(FALSE, 0)
    ELSE IF j > Len(parts2)
         THEN FirstPartMatch(parts1, parts2, i + 1, 1, tolerance, method, available)
         ELSE LET r == compare_single(parts1[i], parts2[j], tolerance, method, available)
              IN  IF r.match THEN r
                  ELSE FirstPartMatch(parts1, parts2, i, j + 1, tolerance, method, available)

\* GeometryChecker.compare.
compare(g1, g2, tolerance, method, decompose, available) ==
    IF isNull(g1) \/ isNull(g2) THEN CompareResult(FALSE, 0)
    ELSE IF decompose
         THEN FirstPartMatch(get_parts(g1), get_parts(g2), 1, 1, tolerance, method, available)
         ELSE compare_single(g1, g2, tolerance, method, available)


\* ------------------------------------------------------------ field values
\* A field value is null, an int or a str.  A str carries its characters and,
\* as `date`, what datetime.strptime makes of it over the formats of
\* _parse_date: a day number, or None when no format fits.
NullValue == [type |-> "null", num |-> 0, text |-> <<>>, date |-> None]
IntValue(n) == [type |-> "int", num |-> n, text |-> <<>>, date |-> None]
StrValue(chars, date) == [type |-> "str", num |-> 0, text |-> chars, date |-> date]

\* Code points of the characters used.
Code(c) ==
    CASE c = " " -> 32 [] c = "-" -> 45 [] c = "/" -> 47
      [] c = "0" -> 48 [] c = "1" -> 49 [] c = "2" -> 50 [] c = "3" -> 51
      [] c = "4" -> 52 [] c = "5" -> 53 [] c = "6" -> 54 [] c = "7" -> 55
      [] c = "8" -> 56 [] c = "9" -> 57
      [] c = "A" -> 65 [] c = "B" -> 66 [] c = "a" -> 97 [] c = "b" -> 98

\* Python's str < str: lexicographic on code points, a proper prefix is less.
RECURSIVE LexLess(_, _)
LexLess(s, t) ==
    IF t = <<>> THEN FALSE
    ELSE IF s = <<>> THEN TRUE
    ELSE IF Code(Head(s)) # Code(Head(t)) THEN Code(Head(s)) < Code(Head(t))
    ELSE LexLess(Tail(s), Tail(t))

\* str(value) of a non-null value (ints are 0..9 here: one digit).
DigitChars == <<"0", "1", "2", "3", "4", "5", "6", "7", "8", "9">>
StrOf(v) == IF v.type = "int" THEN <<DigitChars[v.num + 1]>> ELSE v.text

\* Python's v < w: ints by value, strs lexicographically; an int against a str
\* raises TypeError (SameType is the guard).
SameType(v, w) == v.type = w.type
ValueLess(v, w) == IF v.type = "int" THEN v.num < w.num ELSE LexLess(v.text, w.text)


\* ------------------------------------------------------------------- layer
\* A layer: validity, geometryType() (0 point, 2 polygon), the feature ids in
\* the order getFeatures() yields them, each feature's geometry and its
\* attributes (field name -> value), and the field names.
LayerFields == <<"name", "rank">>
FieldNames == {LayerFields[i] : i \in DOMAIN LayerFields}

SeqToSet(q) == {q[i] : i \in DOMAIN q}
\* The elements of sequence q that lie in S, in q's order.
RECURSIVE Restrict(_, _)
Restrict(q, S) ==
    IF q = <<>> THEN <<>>
    ELSE IF Head(q) \in S THEN <<Head(q)>> \o Restrict(Tail(q), S)
    ELSE Restrict(Tail(q), S)

\* layer.getFeatures(QgsFeatureRequest().setFilterFids(fids)): ids, layer order.
getFeatures(lyr, fids) == Restrict(lyr.fids, fids)

\* feature[field_name]: the value, None for a field the feature lacks (KeyError).
FieldValue(lyr, fid, field) ==
    IF field \in FieldNames THEN lyr.attr[fid][field] ELSE NullValue

\* -------------------------------------------------------- PriorityResolver
\* PriorityResolver.__init__: the rules dict read with its defaults.  `given`
\* is whether the dict has any key (an empty dict is falsy in detect()).
Rules(given, field, order, completeness, area_rule, fallback) ==
    [given |-> given, field |-> field, field_order |-> order,
     completeness |-> completeness, area |-> area_rule, fid_fallback |-> fallback]
\* rules = {}: field None, field_order 0, completeness False, area None,
\* fid_fallback True.
NoRules == Rules(FALSE, "", 0, FALSE, "", TRUE)

\* Python's max(keys, key=...) / min(keys, key=...) over the sequence q: the
\* first element in q's order that no other element beats (`beats` holds the
\* pairs <<a, b>> where a beats b).
FirstBest(q, beats) ==
    LET unbeaten(i) == \A j \in DOMAIN q : <<q[j], q[i]>> \notin beats
        idx == CHOOSE i \in DOMAIN q :
                   unbeaten(i) /\ \A k \in 1 .. (i - 1) : ~unbeaten(k)
    IN  q[idx]
\* The pairs <<a, b>> of elements of q.
Pairs(q) == SeqToSet(q) \X SeqToSet(q)

\* The candidates whose value of the rule's field is not null, in order.
ValidCandidates(lyr, rules, candidates) ==
    Restrict(candidates,
             {fid \in SeqToSet(candidates) :
                  FieldValue(lyr, fid, rules.field).type # "null"})

\* PriorityResolver._parse_date: a datetime, or None (not a str, no format fits).
parse_date(v) == IF v.type = "str" THEN v.date ELSE None

\* PriorityResolver._get_most_recent / _get_oldest over the valid candidates:
\* the parsed dates decide when any value parses, else the str() forms.
get_by_date(lyr, rules, valid, recent) ==
    LET val(fid) == FieldValue(lyr, fid, rules.field)
        dated == Restrict(valid, {fid \in SeqToSet(valid) : parse_date(val(fid)) # None})
        laterDate(a, b) == parse_date(val(a)) > parse_date(val(b))
        earlierDate(a, b) == parse_date(val(a)) < parse_date(val(b))
        laterStr(a, b) == LexLess(StrOf(val(b)), StrOf(val(a)))
        earlierStr(a, b) == LexLess(StrOf(val(a)), StrOf(val(b)))
    IN  IF dated = <<>>
        THEN IF recent
             THEN FirstBest(valid, {p \in Pairs(valid) : laterStr(p[1], p[2])})
             ELSE FirstBest(valid, {p \in Pairs(valid) : earlierStr(p[1], p[2])})
        ELSE IF recent
             THEN FirstBest(dated, {p \in Pairs(dated) : laterDate(p[1], p[2])})
             ELSE FirstBest(dated, {p \in Pairs(dated) : earlierDate(p[1], p[2])})

\* PriorityResolver._apply_field_rule: a feature id, or None.
apply_field_rule(lyr, rules, candidates) ==
    LET val(fid) == FieldValue(lyr, fid, rules.field)
        valid == ValidCandidates(lyr, rules, candidates)
        comparable == \A i, j \in DOMAIN valid : SameType(val(valid[i]), val(valid[j]))
        higher(a, b) == ValueLess(val(b), val(a))
        lower(a, b) == ValueLess(val(a), val(b))
    IN  IF rules.field = "" THEN None
        ELSE IF valid = <<>> THEN None
        ELSE CASE rules.field_order = 0 ->
                      IF comparable
                      THEN FirstBest(valid, {p \in Pairs(valid) : higher(p[1], p[2])})
                      ELSE None
               [] rules.field_order = 1 ->
                      IF comparable
                      THEN FirstBest(valid, {p \in Pairs(valid) : lower(p[1], p[2])})
                      ELSE None
               [] rules.field_order = 2 -> get_by_date(lyr, rules, valid, TRUE)
               [] rules.field_order = 3 -> get_by_date(lyr, rules, valid, FALSE)
               [] OTHER -> None

\* The number of null values over the feature's fields.
NullCount(lyr, fid) ==
    Cardinality({f \in FieldNames : lyr.attr[fid][f].type = "null"})

\* PriorityResolver._apply_completeness_rule: the single candidate with the
\* fewest nulls, None on a tie.
apply_completeness_rule(lyr, candidates) ==
    LET cands == SeqToSet(candidates)
        best == {fid \in cands : \A o \in cands : NullCount(lyr, fid) <= NullCount(lyr, o)}
    IN  IF cands = {} THEN None
        ELSE IF Cardinality(best) = 1 THEN CHOOSE fid \in best : TRUE
        ELSE None

\* PriorityResolver._apply_area_rule: among the candidates with a geometry.
apply_area_rule(lyr, rules, candidates) ==
    LET withGeom == Restrict(candidates,
                        {fid \in SeqToSet(candidates) : ~isNull(lyr.geom[fid])})
        larger(a, b) == area(lyr.geom[a]) > area(lyr.geom[b])
        smaller(a, b) == area(lyr.geom[a]) < area(lyr.geom[b])
    IN  IF rules.area = "" THEN None
        ELSE IF withGeom = <<>> THEN None
        ELSE CASE rules.area = "largest" ->
                      FirstBest(withGeom, {p \in Pairs(withGeom) : larger(p[1], p[2])})
               [] rules.area = "smallest" ->
                      FirstBest(withGeom, {p \in Pairs(withGeom) : smaller(p[1], p[2])})
               [] OTHER -> None

\* Python truthiness of a rule's result in `if result:`: None and 0 are false.
Truthy(result) == result # None /\ result # 0


\* _resolve_group, rule 1: the field rule runs when a field is named and the
\* layer has it.
field_result(lyr, rules, candidates) ==
    IF rules.field # "" /\ rules.field \in FieldNames
    THEN apply_field_rule(lyr, rules, candidates) ELSE None
\* _resolve_group, rule 2.
completeness_result(lyr, rules, candidates) ==
    IF rules.completeness THEN apply_completeness_rule(lyr, candidates) ELSE None
\* _resolve_group, rule 3: the area rule runs on polygon layers only.
area_result(lyr, rules, candidates) ==
    IF rules.area # "" /\ lyr.geometryType = 2
    THEN apply_area_rule(lyr, rules, candidates) ELSE None

\* A plausible slip: the id fallback returns the largest id.
resolve_group_max_fallback(lyr, rules, group) ==
    LET ids == group.feature_ids
        candidates == getFeatures(lyr, ids)
        r1 == field_result(lyr, rules, candidates)
        r2 == completeness_result(lyr, rules, candidates)
        r3 == area_result(lyr, rules, candidates)
    IN  IF Cardinality(ids) < 2
        THEN (IF ids = {} THEN None ELSE CHOOSE fid \in ids : TRUE)
        ELSE IF candidates = <<>> THEN None
        ELSE IF Truthy(r1) THEN r1
        ELSE IF Truthy(r2) THEN r2
        ELSE IF Truthy(r3) THEN r3
        ELSE IF rules.fid_fallback THEN SetMax(SeqToSet(candidates))
        ELSE None

\* PriorityResolver._resolve_group: the rules in the order field,
\* completeness, area, id fallback; a rule's result is taken when `if result:`
\* finds it truthy.
resolve_group(lyr, rules, group) ==
    LET ids == group.feature_ids
        candidates == getFeatures(lyr, ids)
        r1 == field_result(lyr, rules, candidates)
        r2 == completeness_result(lyr, rules, candidates)
        r3 == area_result(lyr, rules, candidates)
    IN  IF Cardinality(ids) < 2
        THEN (IF ids = {} THEN None ELSE CHOOSE fid \in ids : TRUE)
        ELSE IF candidates = <<>> THEN None
        ELSE IF Truthy(r1) THEN r1
        ELSE IF Truthy(r2) THEN r2
        ELSE IF Truthy(r3) THEN r3
        ELSE IF rules.fid_fallback THEN SetMin(SeqToSet(candidates))
        ELSE None

\* PriorityResolver.resolve: suggested_keep of every group, in place.
resolve(lyr, rules, grps) ==
    [i \in DOMAIN grps |->
        [grps[i] EXCEPT !.suggested_keep = resolve_group(lyr, rules, grps[i])]]


\* -------------------------------------------------------- AttributeChecker
IsSpace(c) == c = " "
\* str.lower() on the characters used.
LowerChar(c) == CASE c = "A" -> "a" [] c = "B" -> "b" [] OTHER -> c
Lower(s) == [i \in DOMAIN s |-> LowerChar(s[i])]

\* str.strip(): leading and trailing whitespace removed.
RECURSIVE LStrip(_)
LStrip(s) == IF s # <<>> /\ IsSpace(Head(s)) THEN LStrip(Tail(s)) ELSE s
RECURSIVE RStrip(_)
RStrip(s) ==
    IF s # <<>> /\ IsSpace(s[Len(s)]) THEN RStrip(SubSeq(s, 1, Len(s) - 1)) ELSE s
Strip(s) == RStrip(LStrip(s))

\* ' '.join(value.split()): every run of whitespace becomes one space, none is
\* left at either end.
RECURSIVE SqueezeSpaces(_)
SqueezeSpaces(s) ==
    IF s = <<>> THEN <<>>
    ELSE IF IsSpace(Head(s)) /\ Tail(s) # <<>> /\ IsSpace(Head(Tail(s)))
         THEN SqueezeSpaces(Tail(s))
         ELSE <<Head(s)>> \o SqueezeSpaces(Tail(s))
JoinSplit(s) == SqueezeSpaces(Strip(s))

\* A plausible slip: the case is not folded.
normalize_value_keep_case(v) ==
    IF v.type = "str" THEN StrValue(JoinSplit(Strip(v.text)), None) ELSE v

\* AttributeChecker._normalize_value with case_sensitive = False (the detector
\* never sets it): strip, NFKC (the identity on the ASCII characters used),
\* lower, collapse; numbers pass through.
normalize_value(v) ==
    IF v.type = "str" THEN StrValue(JoinSplit(Lower(Strip(v.text))), None) ELSE v

\* AttributeChecker.get_key: `none` is the return value None (feature skipped);
\* otherwise the tuple of the configured fields' values.
NoKey == [none |-> TRUE, values |-> <<>>]
\* A plausible slip: ignore_null is not consulted, nulls always take part.
get_key_nulls_take_part(lyr, fields, normalize, ignore_null, fid) ==
    LET raw == [i \in DOMAIN fields |-> FieldValue(lyr, fid, fields[i])]
    IN  [none |-> FALSE,
         values |-> [i \in DOMAIN raw |->
                        IF normalize /\ raw[i].type # "null"
                        THEN normalize_value(raw[i])
                        ELSE [raw[i] EXCEPT !.date = None]]]
get_key(lyr, fields, normalize, ignore_null, fid) ==
    LET raw == [i \in DOMAIN fields |-> FieldValue(lyr, fid, fields[i])]
    IN  IF ignore_null /\ \E i \in DOMAIN raw : raw[i].type = "null" THEN NoKey
        ELSE [none |-> FALSE,
              values |-> [i \in DOMAIN raw |->
                             IF normalize /\ raw[i].type # "null"
                             THEN normalize_value(raw[i])
                             ELSE [raw[i] EXCEPT !.date = None]]]

\* ------------------------------------------------------- DuplicateDetector
\* A plausible slip: a bucket needs more than two members to make a group.
BucketGroups_more_than_two(q, key, template) ==
    LET bucket(f) == {g \in SeqToSet(q) : key[g] = key[f]}
        firstSeen == {q[i] : i \in {i \in DOMAIN q :
                                       \A j \in 1 .. (i - 1) : key[q[j]] # key[q[i]]}}
        heads == Restrict(q, {f \in firstSeen : Cardinality(bucket(f)) > 2})
    IN  [i \in DOMAIN heads |-> [template EXCEPT !.feature_ids = bucket(heads[i])]]

\* The groups of a defaultdict(list) keyed by `key` over the feature ids q: one
\* group per key with more than one feature, in the order the keys were first
\* seen (dict order).
BucketGroups(q, key, template) ==
    LET bucket(f) == {g \in SeqToSet(q) : key[g] = key[f]}
        firstSeen == {q[i] : i \in {i \in DOMAIN q :
                                       \A j \in 1 .. (i - 1) : key[q[j]] # key[q[i]]}}
        heads == Restrict(q, {f \in firstSeen : Cardinality(bucket(f)) > 1})
    IN  [i \in DOMAIN heads |-> [template EXCEPT !.feature_ids = bucket(heads[i])]]

\* A plausible slip: features without geometry are hashed like the others.
detect_by_hash_with_nulls(lyr, feats) ==
    LET key == [f \in SeqToSet(feats) |-> hash_geometry(lyr.geom[f])]
    IN  BucketGroups(feats, key,
                     DuplicateGroup({}, "geometry", ScoreOne, "Exact WKB match", None, "none"))

\* A plausible slip: a hash seen once also makes a group.
detect_by_hash_keep_single(lyr, feats) ==
    LET hashed == Restrict(feats, {f \in SeqToSet(feats) : ~isNull(lyr.geom[f])})
        bucket(f) == {g \in SeqToSet(hashed) :
                         hash_geometry(lyr.geom[g]) = hash_geometry(lyr.geom[f])}
        heads == Restrict(hashed, {f \in SeqToSet(hashed) : \A g \in bucket(f) : f <= g})
    IN  [i \in DOMAIN heads |->
            DuplicateGroup(bucket(heads[i]), "geometry", ScoreOne, "Exact WKB match", None, "none")]

\* DuplicateDetector._detect_by_hash.
detect_by_hash(lyr, feats) ==
    LET hashed == Restrict(feats, {f \in SeqToSet(feats) : ~isNull(lyr.geom[f])})
        key == [f \in SeqToSet(hashed) |-> hash_geometry(lyr.geom[f])]
    IN  BucketGroups(hashed, key,
                     DuplicateGroup({}, "geometry", ScoreOne, "Exact WKB match", None, "none"))

\* DuplicateDetector._detect_attribute_duplicates (fields not empty).
detect_attribute_duplicates(lyr, fields, normalize, ignore_null, feats) ==
    LET keyOf(f) == get_key(lyr, fields, normalize, ignore_null, f)
        keyed == Restrict(feats, {f \in SeqToSet(feats) : ~keyOf(f).none})
        key == [f \in SeqToSet(keyed) |-> keyOf(f)]
    IN  BucketGroups(keyed, key,
                     DuplicateGroup({}, "attribute", ScoreOne, "Matching fields", None, "key"))

RECURSIVE Sum(_)
\* sum(...) over the values of a sequence.
Sum(q) == IF q = <<>> THEN 0 ELSE Head(q) + Sum(Tail(q))

\* A plausible slip: the scan's share of the bar without its base of 20.
ScanProgress_no_base(i, total) == (i * 40) \div total

\* int((i / total) * 40) + 20 for the 0-based position i.
ScanProgress(i, total) == 20 + ((i * 40) \div total)


\* DuplicateDetector._build_spatial_index: QgsSpatialIndex.addFeature leaves out
\* a feature without geometry; the cache holds every feature.
build_spatial_index(lyr, feats) ==
    [index |-> [built |-> TRUE, ids |-> {f \in SeqToSet(feats) : ~isNull(lyr.geom[f])}],
     cache |-> SeqToSet(feats)]

\* QgsSpatialIndex.intersects(search_rect) for the seed's bounding box grown
\* by the tolerance: the indexed ids whose bounding box meets the rectangle.
intersects(lyr, index, seed, tolerance) ==
    {c \in index.ids : /\ lyr.geom[c].lo <= lyr.geom[seed].hi + tolerance
                       /\ lyr.geom[c].hi >= lyr.geom[seed].lo - tolerance}

\* The candidates of seed `fid` that reach checker.compare in the inner loop.
Compared(lyr, cfg, index, cache, done, fid) ==
    {c \in intersects(lyr, index, fid, cfg.tolerance) :
        c # fid /\ c \notin done /\ c \in cache /\ ~isNull(lyr.geom[c])}

CompareWith(lyr, cfg, fid, c) ==
    compare(lyr.geom[fid], lyr.geom[c], cfg.tolerance, cfg.compare_method,
            cfg.decompose_multipart, lyr.hausdorff_ok)

\* confidence_score=score if 'score' in dir() else 0.9
GroupConfidence(sc) == IF sc = None THEN (9 * ScoreOne) \div 10 ELSE sc

\* A plausible slip: every candidate the index returns joins the seed's group.
tolerance_pass_all_candidates(lyr, cfg, index, cache, st, fid, last) ==
    LET compared == Compared(lyr, cfg, index, cache, st.processed, fid)
        sc == IF last = None THEN st.score ELSE CompareWith(lyr, cfg, fid, last).score
        group == DuplicateGroup({fid} \cup compared, "geometry", GroupConfidence(sc),
                                "Within tolerance", None, "none")
    IN  IF compared # {}
        THEN [groups |-> Append(st.groups, group),
              processed |-> st.processed \cup {fid} \cup compared, score |-> sc]
        ELSE [groups |-> st.groups, processed |-> st.processed \cup {fid}, score |-> sc]

\* A plausible slip: only the seed is marked processed, not its duplicates.
tolerance_pass_seed_only(lyr, cfg, index, cache, st, fid, last) ==
    LET compared == Compared(lyr, cfg, index, cache, st.processed, fid)
        matches == {c \in compared : CompareWith(lyr, cfg, fid, c).match}
        sc == IF last = None THEN st.score ELSE CompareWith(lyr, cfg, fid, last).score
        group == DuplicateGroup({fid} \cup matches, "geometry", GroupConfidence(sc),
                                "Within tolerance", None, "none")
    IN  IF matches # {}
        THEN [groups |-> Append(st.groups, group),
              processed |-> st.processed \cup {fid}, score |-> sc]
        ELSE [groups |-> st.groups, processed |-> st.processed \cup {fid}, score |-> sc]

\* One pass of the outer loop of _detect_by_tolerance for the unprocessed seed
\* `fid` with a geometry; `last` is the candidate compared last (the index
\* returns the candidates in an order of its own), None when none was compared.
\* The local `score` keeps the score of the last comparison made, in this pass
\* or an earlier one.
tolerance_pass(lyr, cfg, index, cache, st, fid, last) ==
    LET compared == Compared(lyr, cfg, index, cache, st.processed, fid)
        matches == {c \in compared : CompareWith(lyr, cfg, fid, c).match}
        sc == IF last = None THEN st.score ELSE CompareWith(lyr, cfg, fid, last).score
        group == DuplicateGroup({fid} \cup matches, "geometry", GroupConfidence(sc),
                                "Within tolerance", None, "none")
    IN  IF matches # {}
        THEN [groups |-> Append(st.groups, group),
              processed |-> st.processed \cup {fid} \cup matches, score |-> sc]
        ELSE [groups |-> st.groups, processed |-> st.processed \cup {fid}, score |-> sc]


\* ------------------------------------------------------------ input space
Layer(valid, gtype, fids, geom, attr, hok) ==
    [valid |-> valid, geometryType |-> gtype, fids |-> fids, geom |-> geom,
     attr |-> attr, hausdorff_ok |-> hok]

Config(dtype, tol, method, decompose, fields, normalize, ignore_null, rules, smode, ssize) ==
    [detection_type |-> dtype, tolerance |-> tol, compare_method |-> method,
     decompose_multipart |-> decompose, fields |-> fields,
     normalize_attributes |-> normalize, ignore_null |-> ignore_null,
     priority_rules |-> rules, sample_mode |-> smode, sample_size |-> ssize,
     progress_callback |-> "records"]

\* DuplicateDetector.__init__ defaults (sample_size 5000 exceeds every layer here).
DefaultConfig ==
    Config("geometry", 0, 0, FALSE, <<>>, TRUE, FALSE, NoRules, FALSE, NumFeatures)

\* Coordinates and tolerances: a candidate can lie inside a seed's grown
\* rectangle and still be farther than the tolerance from it (tolerance 1), or
\* match it at the lowest score (tolerance 2).  With the point at 6 the
\* centroids 0, 2, 4, 6 form a chain whose neighbours match at tolerance 2
\* while its ends do not.
Coords == {0, 4}
Tolerances == {0, 1, 2}
PointGeoms ==
    {NullGeometry, Point(6)} \cup {Point(x) : x \in Coords}
        \cup {Geometry("multipoint", p[1], p[2], "none") :
                 p \in {q \in Coords \X Coords : q[1] < q[2]}}
PolygonGeoms ==
    {NullGeometry, Geometry("polygon", 0, 4, "ccw"), Geometry("polygon", 0, 4, "cw"),
     Geometry("polygon", 0, 8, "ccw")}

AllFids == [i \in 1 .. NumFeatures |-> i - 1]
NameA == StrValue(<<"a">>, None)
DefaultAttr == [f \in Fids |-> [name |-> NameA, rank |-> IntValue(f % 2)]]
DefaultGeom == [f \in Fids |-> Point(0)]

PointLayers == {Layer(TRUE, 0, AllFids, g, DefaultAttr, TRUE) : g \in [Fids -> PointGeoms]}
PolygonLayers == {Layer(TRUE, 2, AllFids, g, DefaultAttr, TRUE) : g \in [Fids -> PolygonGeoms]}

\* Rule sets handed to detect() besides the empty dict.
SomeRules ==
    {Rules(TRUE, "rank", 0, TRUE, "largest", TRUE), Rules(TRUE, "", 0, TRUE, "smallest", FALSE)}

\* tolerance == 0 takes the hash path whatever the method and the flag are.
HashConfigs ==
    {DefaultConfig, [DefaultConfig EXCEPT !.compare_method = 1, !.decompose_multipart = TRUE]}
ToleranceConfigs(flags) ==
    {[DefaultConfig EXCEPT !.tolerance = t, !.compare_method = m, !.decompose_multipart = d] :
        t \in Tolerances \ {0}, m \in 0 .. 3, d \in flags}
\* sample_mode with a sample_size below the feature count (a sample is drawn)
\* and at it (no sample is drawn).
SampledGeometryConfigs ==
    {[DefaultConfig EXCEPT !.tolerance = t, !.compare_method = t, !.sample_mode = TRUE,
                           !.sample_size = NumFeatures - 1] : t \in {0, 1}}
    \cup {[DefaultConfig EXCEPT !.sample_mode = TRUE]}
ResolvedGeometryConfigs ==
    {[DefaultConfig EXCEPT !.tolerance = t, !.compare_method = t, !.priority_rules = r] :
        t \in {0, 1}, r \in SomeRules}

\* Names: "a b" and two spellings of it that differ in letter case or in
\* leading, trailing and repeated inner whitespace, another name, and null.
NameValues ==
    {NullValue, StrValue(<<"a", " ", "b">>, None), StrValue(<<"A", " ", "B">>, None),
     StrValue(<<" ", "a", " ", " ", "b", " ">>, None), StrValue(<<"b">>, None)}
NameTables == [Fids -> NameValues]
NameOnlyLayers ==
    {Layer(TRUE, 0, AllFids, DefaultGeom,
           [f \in Fids |-> [name |-> n[f], rank |-> IntValue(1)]], TRUE) : n \in NameTables}
\* Layers whose two fields may each be null.
TwoFieldValues ==
    {NullValue, StrValue(<<"a", " ", "b">>, None), StrValue(<<"A", " ", "B">>, None)}
        \X {NullValue, IntValue(1)}
TwoFieldLayers ==
    {Layer(TRUE, 0, AllFids, DefaultGeom,
           [f \in Fids |-> [name |-> t[f][1], rank |-> t[f][2]]], TRUE) :
        t \in [Fids -> TwoFieldValues]}

AttributeConfigs(fieldLists) ==
    {[DefaultConfig EXCEPT !.detection_type = "attribute", !.fields = fl,
                           !.normalize_attributes = nz, !.ignore_null = ig] :
        fl \in fieldLists, nz \in BOOLEAN, ig \in BOOLEAN}

\* A layer without features.
EmptyLayers == {Layer(TRUE, 0, <<>>, DefaultGeom, DefaultAttr, TRUE)}

\* progress_callback: None, or a callable that may raise when it is called
\* (elsewhere a callable that records what it receives).
CallbackConfigs ==
    {[DefaultConfig EXCEPT !.tolerance = t, !.compare_method = t, !.progress_callback = cb] :
        t \in {0, 1}, cb \in {"none", "raises"}}

\* The runs explored: <<layer, config>>.
HausdorffConfig == [DefaultConfig EXCEPT !.tolerance = 2, !.compare_method = 2]
\* (multipart decomposition is only varied where a layer has multipart geometries)
DetectRuns ==
    (PointLayers \X (HashConfigs \cup ToleranceConfigs(BOOLEAN)
                        \cup SampledGeometryConfigs \cup ResolvedGeometryConfigs))
    \cup (PolygonLayers \X (HashConfigs \cup ToleranceConfigs({FALSE})
                        \cup SampledGeometryConfigs \cup ResolvedGeometryConfigs))
    \cup ({[l EXCEPT !.hausdorff_ok = FALSE] : l \in PointLayers} \X {HausdorffConfig})
    \cup (NameOnlyLayers \X AttributeConfigs({<<"name">>, <<>>, <<"name", "missing">>}))
    \cup (TwoFieldLayers \X AttributeConfigs({<<"name", "rank">>}))
    \cup {<<Layer(FALSE, 0, AllFids, DefaultGeom, DefaultAttr, TRUE), DefaultConfig>>}
    \cup (EmptyLayers \X {DefaultConfig, [DefaultConfig EXCEPT !.tolerance = 1],
                           [DefaultConfig EXCEPT !.detection_type = "attribute",
                                                 !.fields = <<"name">>]})
    \cup (PointLayers \X CallbackConfigs)

ZeroMap == [fid \in Fids |-> 0]
\* self._spatial_index = None
NoIndex == [built |-> FALSE, ids |-> {}]

Init ==
    /\ \E run \in DetectRuns : layer = run[1] /\ config = run[2]
    /\ pc = "idle"
    /\ features = <<>>
    /\ spatial_index = NoIndex
    /\ feature_cache = {}
    /\ stored_groups = <<>>
    /\ groups = <<>>
    /\ processed = {}
    /\ score = None
    /\ scanPos = 1
    /\ progress = <<>>
    /\ returned = <<>>
    /\ runs = 0
    /\ firstResult = <<>>
    /\ consolidated = <<>>
    /\ feature_to_group = ZeroMap
    /\ pending = <<>>
    /\ nIn = 0
    /\ cur = <<>>


\* ----------------------------------------------------------------- detect()
\* self._report_progress(value): the callback, when one is set, receives the
\* value (`log` is what it has received so far).
Report(callback, log, values) == IF callback = "none" THEN log ELSE log \o values

\* A plausible slip: a sample that may come out smaller than asked for.
Samples_at_most(lyr, size) ==
    {Restrict(lyr.fids, S) : S \in {T \in SUBSET SeqToSet(lyr.fids) :
                                        Cardinality(T) <= Min(size, Len(lyr.fids))}}

\* DuplicateDetector._sample_features: random.sample picks any sample_size of
\* the ids; the filtered request yields them in layer order.
Samples(lyr, size) ==
    {Restrict(lyr.fids, S) : S \in {T \in SUBSET SeqToSet(lyr.fids) :
                                        Cardinality(T) = Min(size, Len(lyr.fids))}}

\* A plausible slip: the scan state of an earlier call is kept.
FreshScan_stale == [groups |-> <<>>, processed |-> processed, score |-> score]

\* processed = set(); groups = []; `score` not yet bound.
FreshScan == [groups |-> <<>>, processed |-> {}, score |-> None]

\* A plausible slip: detect() empties the stored result when it starts.
DetectBegin_resets ==
    /\ pc = "idle"
    /\ stored_groups' = <<>>
    /\ IF ~layer.valid
       THEN /\ pc' = "error"
            /\ UNCHANGED <<features, progress>>
       ELSE /\ pc' = "indexing"
            /\ features' \in (IF config.sample_mode /\ Len(layer.fids) > config.sample_size
                               THEN Samples(layer, config.sample_size) ELSE {layer.fids})
            /\ progress' = Report(config.progress_callback, progress, <<0, 10>>)
    /\ UNCHANGED <<envVars, scanVars, consVars, spatial_index, feature_cache,
                   returned, runs, firstResult>>

\* detect(), lines 131-144: the validity check, report 0, the sample or the
\* whole layer, report 10.
DetectBegin ==
    /\ pc = "idle"
    /\ IF ~layer.valid
       THEN /\ pc' = "error"
            /\ UNCHANGED <<features, progress>>
       ELSE /\ pc' = "indexing"
            /\ IF config.sample_mode /\ Len(layer.fids) > config.sample_size
               THEN /\ features' \in Samples(layer, config.sample_size)
                    /\ progress' = Report(config.progress_callback, progress, <<0, 5, 10>>)
               ELSE /\ features' = layer.fids
                    /\ progress' = Report(config.progress_callback, progress, <<0, 10>>)
    /\ UNCHANGED <<envVars, scanVars, consVars, spatial_index, feature_cache,
                   stored_groups, returned, runs, firstResult>>

\* detect(), lines 147-150: the index for geometry detection, report 20.
BuildIndex ==
    /\ pc = "indexing"
    /\ IF config.detection_type = "geometry"
       THEN /\ spatial_index' = build_spatial_index(layer, features).index
            /\ feature_cache' = build_spatial_index(layer, features).cache
       ELSE UNCHANGED <<spatial_index, feature_cache>>
    /\ progress' = Report(config.progress_callback, progress, <<20>>)
    /\ groups' = FreshScan.groups
    /\ processed' = FreshScan.processed
    /\ score' = FreshScan.score
    /\ scanPos' = 1
    /\ pc' = "scanning"
    /\ UNCHANGED <<envVars, consVars, features, stored_groups, returned, runs, firstResult>>

\* _detect_geometry_duplicates with tolerance == 0: _detect_by_hash.
DetectByHash ==
    /\ pc = "scanning"
    /\ config.detection_type = "geometry"
    /\ config.tolerance = 0
    /\ groups' = detect_by_hash(layer, features)
    /\ progress' = Report(config.progress_callback, progress, IF features = <<>> THEN <<>>
                                    ELSE <<ScanProgress(0, Len(features))>>)
    /\ pc' = "resolving"
    /\ UNCHANGED <<envVars, consVars, features, spatial_index, feature_cache,
                   stored_groups, processed, score, scanPos, returned, runs, firstResult>>

\* One iteration of the outer loop of _detect_by_tolerance.
ScanFeature ==
    /\ pc = "scanning"
    /\ config.detection_type = "geometry"
    /\ config.tolerance # 0
    /\ scanPos <= Len(features)
    /\ LET fid == features[scanPos]
           st == [groups |-> groups, processed |-> processed, score |-> score]
           compared == Compared(layer, config, spatial_index, feature_cache, processed, fid)
       IN  IF fid \in processed
           THEN UNCHANGED <<groups, processed, score, progress>>
           ELSE /\ progress' = Report(config.progress_callback, progress,
                                  IF (scanPos - 1) % 100 = 0
                                  THEN <<ScanProgress(scanPos - 1, Len(features))>> ELSE <<>>)
                /\ IF isNull(layer.geom[fid])
                   THEN UNCHANGED <<groups, processed, score>>
                   ELSE \E last \in (IF compared = {} THEN {None} ELSE compared) :
                          LET nx == tolerance_pass(layer, config, spatial_index,
                                                   feature_cache, st, fid, last)
                          IN  /\ groups' = nx.groups
                              /\ processed' = nx.processed
                              /\ score' = nx.score
    /\ scanPos' = scanPos + 1
    /\ UNCHANGED <<envVars, consVars, pc, features, spatial_index, feature_cache,
                   stored_groups, returned, runs, firstResult>>

\* _detect_by_tolerance returns its groups.
ScanReturn ==
    /\ pc = "scanning"
    /\ config.detection_type = "geometry"
    /\ config.tolerance # 0
    /\ scanPos > Len(features)
    /\ pc' = "resolving"
    /\ UNCHANGED <<envVars, scanVars, consVars, detVars>>

\* _detect_attribute_duplicates: ValueError without fields, else the buckets.
DetectAttribute ==
    /\ pc = "scanning"
    /\ config.detection_type # "geometry"
    /\ IF config.fields = <<>>
       THEN /\ pc' = "error"
            /\ UNCHANGED <<groups, progress>>
       ELSE /\ groups' = detect_attribute_duplicates(layer, config.fields,
                             config.normalize_attributes, config.ignore_null, features)
            /\ progress' = Report(config.progress_callback, progress, IF features = <<>> THEN <<>>
                                            ELSE <<ScanProgress(0, Len(features))>>)
            /\ pc' = "resolving"
    /\ UNCHANGED <<envVars, consVars, features, spatial_index, feature_cache,
                   stored_groups, processed, score, scanPos, returned, runs, firstResult>>

\* A plausible slip: the resolver runs whether or not rules were given, with
\* the defaults of PriorityResolver.__init__ (fid_fallback True).
ResolvePriorities_always ==
    /\ pc = "resolving"
    /\ groups' = resolve(layer, config.priority_rules, groups)
    /\ progress' = Report(config.progress_callback, progress, <<70, 90>>)
    /\ pending' = groups'
    /\ consolidated' = <<>>
    /\ feature_to_group' = ZeroMap
    /\ nIn' = 0
    /\ cur' = <<>>
    /\ pc' = "consolidating"
    /\ UNCHANGED <<envVars, features, spatial_index, feature_cache, stored_groups,
                   processed, score, scanPos, returned, runs, firstResult>>

\* detect(), lines 158-172: report 70, the resolver when rules were given,
\* report 90, and the call of _consolidate_groups with its empty locals.
ResolvePriorities ==
    /\ pc = "resolving"
    /\ groups' = IF config.priority_rules.given
                 THEN resolve(layer, config.priority_rules, groups) ELSE groups
    /\ progress' = Report(config.progress_callback, progress, <<70, 90>>)
    /\ pending' = groups'
    /\ consolidated' = <<>>
    /\ feature_to_group' = ZeroMap
    /\ nIn' = 0
    /\ cur' = <<>>
    /\ pc' = "consolidating"
    /\ UNCHANGED <<envVars, features, spatial_index, feature_cache, stored_groups,
                   processed, score, scanPos, returned, runs, firstResult>>


\* One iteration of the loop of _consolidate_groups for the input group g.
ConsolidateGroup(g) ==
    /\ LET owned == OwnedMembers(feature_to_group, g)
       IN  IF owned = {}
           THEN LET nx == AcceptNew(consolidated, feature_to_group, g)
                IN  /\ consolidated' = nx.consolidated
                    /\ feature_to_group' = nx.feature_to_group
           ELSE \E hit \in owned :
                    LET nx == MergeIntoExisting(consolidated, feature_to_group, g, hit)
                    IN  /\ consolidated' = nx.consolidated
                        /\ feature_to_group' = nx.feature_to_group
    /\ nIn' = nIn + 1
    /\ cur' = g

\* detect(), line 172: the loop of _consolidate_groups over detect()'s groups.
ConsolidateNext ==
    /\ pc = "consolidating"
    /\ pending # <<>>
    /\ ConsolidateGroup(Head(pending))
    /\ pending' = Tail(pending)
    /\ UNCHANGED <<envVars, scanVars, detVars, pc>>

\* detect(), lines 174-177: report 100, self._groups = groups, return groups.
DetectReturn ==
    /\ pc = "consolidating"
    /\ pending = <<>>
    /\ progress' = Report(config.progress_callback, progress, <<100>>)
    /\ stored_groups' = consolidated
    /\ returned' = consolidated
    /\ runs' = runs + 1
    /\ firstResult' = IF runs = 0 THEN consolidated ELSE firstResult
    /\ pc' = "done"
    /\ UNCHANGED <<envVars, scanVars, consVars, features, spatial_index, feature_cache>>

\* The values the next step of detect() hands to _report_progress, in order.
NextReports ==
    IF pc = "idle" /\ layer.valid
    THEN IF config.sample_mode /\ Len(layer.fids) > config.sample_size
         THEN <<0, 5, 10>> ELSE <<0, 10>>
    ELSE IF pc = "indexing" THEN <<20>>
    ELSE IF pc = "scanning"
    THEN IF config.detection_type = "geometry" /\ config.tolerance # 0
         THEN IF /\ scanPos <= Len(features)
                 /\ features[scanPos] \notin processed
                 /\ (scanPos - 1) % 100 = 0
              THEN <<ScanProgress(scanPos - 1, Len(features))>> ELSE <<>>
         ELSE IF features = <<>> \/ (config.detection_type # "geometry" /\ config.fields = <<>>)
              THEN <<>> ELSE <<ScanProgress(0, Len(features))>>
    ELSE IF pc = "resolving" THEN <<70, 90>>
    ELSE IF pc = "consolidating" /\ pending = <<>> THEN <<100>>
    ELSE <<>>

\* _report_progress, lines 120-123, calls the callback unguarded: when the
\* callback raises at the n-th report of the next step, the exception leaves
\* detect().  What detect() did before that call stays done (the index built
\* before report 20); self._groups is not assigned and nothing is returned.
ReportRaises ==
    /\ config.progress_callback = "raises"
    /\ \E n \in 1 .. Len(NextReports) :
          progress' = Report(config.progress_callback, progress, SubSeq(NextReports, 1, n))
    /\ IF pc = "indexing" /\ config.detection_type = "geometry"
       THEN /\ spatial_index' = build_spatial_index(layer, features).index
            /\ feature_cache' = build_spatial_index(layer, features).cache
       ELSE UNCHANGED <<spatial_index, feature_cache>>
    /\ pc' = "callback_error"
    /\ UNCHANGED <<envVars, scanVars, consVars, features, stored_groups, returned, runs,
                   firstResult>>

\* The caller runs detect() a second time on the same detector: on the same
\* layer and settings, or after setting detector.layer to an invalid layer, or
\* (attribute detection) detector.fields to the empty list.
DetectAgain ==
    /\ pc = "done"
    /\ runs < 2
    /\ pc' = "idle"
    /\ progress' = <<>>
    /\ \/ UNCHANGED envVars
       \/ /\ layer' = [layer EXCEPT !.valid = FALSE]
          /\ UNCHANGED config
       \/ /\ config.detection_type # "geometry"
          /\ config' = [config EXCEPT !.fields = <<>>]
          /\ UNCHANGED layer
    /\ UNCHANGED <<scanVars, consVars, features, spatial_index, feature_cache,
                   stored_groups, returned, runs, firstResult>>

\* DuplicateDetector.get_statistics: {} while self._groups is empty, else the
\* counts; duplication_rate is the quotient <<numerator, denominator>>.
get_statistics(lyr, cfg, grps) ==
    IF grps = <<>> THEN [empty |-> TRUE]
    ELSE LET total_features == Len(lyr.fids)
             total_duplicates == Sum([k \in DOMAIN grps |-> Cardinality(grps[k].feature_ids)])
         IN  [empty |-> FALSE,
              total_features |-> total_features,
              duplicate_groups |-> Len(grps),
              duplicate_features |-> total_duplicates,
              duplication_rate |-> IF total_features > 0
                                   THEN <<total_duplicates, total_features>> ELSE <<0, 1>>,
              detection_type |-> cfg.detection_type,
              tolerance |-> cfg.tolerance,
              fields |-> cfg.fields]

Next ==
    \/ DetectBegin
    \/ BuildIndex
    \/ DetectByHash
    \/ ScanFeature
    \/ ScanReturn
    \/ DetectAttribute
    \/ ResolvePriorities
    \/ ConsolidateNext
    \/ DetectReturn
    \/ ReportRaises
    \/ DetectAgain

Spec == Init /\ [][Next]_vars


\* ------------------------------------------ _consolidate_groups on any list
\* The groups a caller may hand over: at least two members, a confidence, and
\* a suggested_keep that is unset or one of the members (a resolved group).
GroupUniverse ==
    {g \in {DuplicateGroup(ids, d[1], c, d[2], k, d[3]) :
                ids \in {S \in SUBSET Fids : Cardinality(S) >= 2},
                d \in {<<"geometry", "Within tolerance", "none">>,
                       <<"attribute", "Matching fields", "key">>},
                c \in {ScoreOne \div 2, ScoreOne},
                k \in {None} \cup Fids} :
        g.suggested_keep = None \/ g.suggested_keep \in g.feature_ids}

IdleDetector ==
    /\ layer = Layer(TRUE, 0, AllFids, DefaultGeom, DefaultAttr, TRUE)
    /\ config = DefaultConfig
    /\ features = <<>>
    /\ spatial_index = NoIndex
    /\ feature_cache = {}
    /\ stored_groups = <<>>
    /\ groups = <<>>
    /\ processed = {}
    /\ score = None
    /\ scanPos = 1
    /\ progress = <<>>
    /\ returned = <<>>
    /\ runs = 0
    /\ firstResult = <<>>

InitConsolidate ==
    /\ IdleDetector
    /\ pc = "consolidate"
    /\ consolidated = <<>>
    /\ feature_to_group = ZeroMap
    /\ pending = <<>>
    /\ nIn = 0
    /\ cur = <<>>

\* The loop of _consolidate_groups takes the next group of the caller's list.
ConsolidateInput ==
    /\ pc = "consolidate"
    /\ nIn < MaxGroups
    /\ \E g \in GroupUniverse : ConsolidateGroup(g)
    /\ UNCHANGED <<envVars, scanVars, detVars, pc, pending>>

\* _consolidate_groups returns `consolidated` ([] for an empty list).
ConsolidateReturn ==
    /\ pc = "consolidate"
    /\ returned' = consolidated
    /\ pc' = "consolidated"
    /\ UNCHANGED <<envVars, scanVars, consVars, features, spatial_index, feature_cache,
                   stored_groups, progress, runs, firstResult>>

NextConsolidate == ConsolidateInput \/ ConsolidateReturn

SpecConsolidate == InitConsolidate /\ [][NextConsolidate]_vars


\* ------------------------- _consolidate_groups on the list it has returned
\* The caller hands the returned list to _consolidate_groups again: the list
\* of the first call is kept for comparison, the locals start empty.
ReconsolidateBegin ==
    /\ pc = "consolidated"
    /\ firstResult' = returned
    /\ pending' = returned
    /\ consolidated' = <<>>
    /\ feature_to_group' = ZeroMap
    /\ nIn' = 0
    /\ cur' = <<>>
    /\ pc' = "reconsolidating"
    /\ UNCHANGED <<envVars, scanVars, features, spatial_index, feature_cache,
                   stored_groups, progress, returned, runs>>

\* One iteration of the loop of the second call.
ReconsolidateNext ==
    /\ pc = "reconsolidating"
    /\ pending # <<>>
    /\ ConsolidateGroup(Head(pending))
    /\ pending' = Tail(pending)
    /\ UNCHANGED <<envVars, scanVars, detVars, pc>>

\* The second call returns its `consolidated`.
ReconsolidateReturn ==
    /\ pc = "reconsolidating"
    /\ pending = <<>>
    /\ returned' = consolidated
    /\ pc' = "reconsolidated"
    /\ UNCHANGED <<envVars, scanVars, consVars, features, spatial_index, feature_cache,
                   stored_groups, progress, runs, firstResult>>

NextReconsolidate ==
    \/ ConsolidateInput
    \/ ConsolidateReturn
    \/ ReconsolidateBegin
    \/ ReconsolidateNext
    \/ ReconsolidateReturn

SpecReconsolidate == InitConsolidate /\ [][NextReconsolidate]_vars


\* ------------------------------------------- PriorityResolver.resolve alone
\* Field values the field rule orders: two ints, two strings that _parse_date
\* reads as dates ('%d/%m/%Y' -> 2021-02-01, '%Y-%m-%d' -> 2020-06-01, the
\* later date being the lesser string), and null.
DateA == StrValue(<<"1", "/", "2", "/", "2", "0", "2", "1">>, 20210201)
DateB == StrValue(<<"2", "0", "2", "0", "-", "6", "-", "1">>, 20200601)
ResolveRankValues == {NullValue, IntValue(1), IntValue(2), DateA, DateB}
ResolveAreaGeoms ==
    {NullGeometry, Geometry("polygon", 0, 4, "ccw"), Geometry("polygon", 0, 8, "ccw")}

\* The groups resolved: pairs and a triple, with and without feature id 0.
ResolveGroups == {{0, 1}, {1, 2}, {0, 1, 2}}

\* Rule dicts: field absent, present in the layer ("rank", any order), or a
\* name the layer lacks; every completeness / area / fid_fallback setting.
ResolveRules ==
    {Rules(TRUE, fo[1], fo[2], c, a, fb) :
        fo \in ({"rank"} \X (0 .. 3)) \cup {<<"", 0>>, <<"missing", 0>>},
        c \in BOOLEAN, a \in {"", "largest", "smallest"}, fb \in BOOLEAN}

\* The data of a group's members is varied where some rule reads it.
RankDomain(rules) ==
    IF rules.field = "rank" THEN ResolveRankValues
    ELSE IF rules.completeness THEN {NullValue, IntValue(1)} ELSE {IntValue(1)}
NameDomain(rules) == IF rules.completeness THEN {NullValue, NameA} ELSE {NameA}
GeomDomain(rules, gtype) ==
    IF gtype # 2 THEN {Point(0)}
    ELSE IF rules.area # "" THEN ResolveAreaGeoms ELSE {Geometry("polygon", 0, 4, "ccw")}
GeometryTypes(rules) == IF rules.area # "" THEN {0, 2} ELSE {0}

ResolveLayer(gtype, ids, rank, name, geom) ==
    Layer(TRUE, gtype, AllFids,
          [f \in Fids |-> IF f \in ids THEN geom[f]
                          ELSE IF gtype = 2 THEN Geometry("polygon", 0, 4, "ccw") ELSE Point(0)],
          [f \in Fids |-> IF f \in ids THEN [name |-> name[f], rank |-> rank[f]]
                          ELSE DefaultAttr[f]],
          TRUE)

InitResolve ==
    /\ \E rules \in ResolveRules, ids \in ResolveGroups :
         \E gtype \in GeometryTypes(rules) :
           \E rank \in [ids -> RankDomain(rules)], name \in [ids -> NameDomain(rules)],
              geom \in [ids -> GeomDomain(rules, gtype)] :
                /\ layer = ResolveLayer(gtype, ids, rank, name, geom)
                /\ config = [DefaultConfig EXCEPT !.priority_rules = rules]
                /\ groups = <<DuplicateGroup(ids, "geometry", ScoreOne,
                                             "Identical geometry", None, "none")>>
    /\ pc = "resolve"
    /\ features = <<>>
    /\ spatial_index = NoIndex
    /\ feature_cache = {}
    /\ stored_groups = <<>>
    /\ processed = {}
    /\ score = None
    /\ scanPos = 1
    /\ progress = <<>>
    /\ returned = <<>>
    /\ runs = 0
    /\ firstResult = <<>>
    /\ consolidated = <<>>
    /\ feature_to_group = ZeroMap
    /\ pending = <<>>
    /\ nIn = 0
    /\ cur = <<>>

\* PriorityResolver(layer, rules).resolve(groups), and its return.
Resolve ==
    /\ pc = "resolve"
    /\ groups' = resolve(layer, config.priority_rules, groups)
    /\ returned' = groups'
    /\ pc' = "resolved"
    /\ UNCHANGED <<envVars, consVars, processed, score, scanPos, features, spatial_index,
                   feature_cache, stored_groups, progress, runs, firstResult>>

NextResolve == Resolve

SpecResolve == InitResolve /\ [][NextResolve]_vars


\* ------------------------------------ GeometryChecker.compare / hash alone
\* Two geometries of any kind here (null, point, multipoint, polygon of either
\* ring orientation), held as features 0 and 1 of the layer, and the checker's
\* decompose_multipart flag; tolerance 0 and the 'wkb' method.
CompareGeoms == PointGeoms \cup PolygonGeoms

InitCompare ==
    /\ \E g1 \in CompareGeoms, g2 \in CompareGeoms, decompose \in BOOLEAN :
          /\ layer = Layer(TRUE, 0, AllFids,
                           [f \in Fids |-> IF f = 0 THEN g1 ELSE IF f = 1 THEN g2
                                           ELSE Point(0)],
                           DefaultAttr, TRUE)
          /\ config = [DefaultConfig EXCEPT !.decompose_multipart = decompose]
    /\ pc = "compare"
    /\ features = <<>>
    /\ spatial_index = NoIndex
    /\ feature_cache = {}
    /\ stored_groups = <<>>
    /\ groups = <<>>
    /\ processed = {}
    /\ score = None
    /\ scanPos = 1
    /\ progress = <<>>
    /\ returned = <<>>
    /\ runs = 0
    /\ firstResult = <<>>
    /\ consolidated = <<>>
    /\ feature_to_group = ZeroMap
    /\ pending = <<>>
    /\ nIn = 0
    /\ cur = <<>>

\* checker.hash_geometry(g1), checker.hash_geometry(g2) and
\* checker.compare(g1, g2, tolerance, method), and what they return.
Compare ==
    /\ pc = "compare"
    /\ returned' = <<[hash1 |-> hash_geometry(layer.geom[0]),
                      hash2 |-> hash_geometry(layer.geom[1]),
                      result |-> compare(layer.geom[0], layer.geom[1], config.tolerance,
                                         config.compare_method, config.decompose_multipart,
                                         layer.hausdorff_ok)]>>
    /\ pc' = "compared"
    /\ UNCHANGED <<envVars, scanVars, consVars, features, spatial_index, feature_cache,
                   stored_groups, progress, runs, firstResult>>

NextCompare == Compare

SpecCompare == InitCompare /\ [][NextCompare]_vars


\* ------------------------------- AttributeChecker._levenshtein_* alone
MaxStrLen == 3
LevAlphabet == {"a", "b"}
\* Every string over the alphabet of at most MaxStrLen characters.
LevStrings == UNION {[1 .. n -> LevAlphabet] : n \in 0 .. MaxStrLen}

\* A plausible slip: a substitution is charged even when the characters agree.
SubstitutionCost_always(c1, c2) == 1

\* (c1 != c2) as an int, line 223.
SubstitutionCost(c1, c2) == IF c1 # c2 THEN 1 ELSE 0

RECURSIVE InnerRow(_, _, _, _, _)
\* The inner loop, lines 220-224: current_row grows by one cell per character
\* of s2 (j is the 1-based position in s2, row[j] the cell appended last).
InnerRow(c1, s2, prev, row, j) ==
    IF j > Len(s2) THEN row
    ELSE LET insertions == prev[j + 1] + 1
             deletions == row[j] + 1
             substitutions == prev[j] + SubstitutionCost(c1, s2[j])
         IN  InnerRow(c1, s2, prev,
                      Append(row, Min(insertions, Min(deletions, substitutions))), j + 1)

RECURSIVE OuterRows(_, _, _, _)
\* The outer loop, lines 218-225: one row per character of s1, the row kept
\* being the one just built.
OuterRows(s1, s2, prev, i) ==
    IF i > Len(s1) THEN prev
    ELSE OuterRows(s1, s2, InnerRow(s1[i], s2, prev, <<i>>, 1), i + 1)

\* _levenshtein_distance on s1 no shorter than s2 (lines 213-227).
LevenshteinOrdered(s1, s2) ==
    IF Len(s2) = 0 THEN Len(s1)
    ELSE LET last == OuterRows(s1, s2, [k \in 1 .. Len(s2) + 1 |-> k - 1], 1)
         IN  last[Len(last)]

\* _levenshtein_distance: the arguments are swapped when s1 is the shorter.
levenshtein_distance(s1, s2) ==
    IF Len(s1) < Len(s2) THEN LevenshteinOrdered(s2, s1) ELSE LevenshteinOrdered(s1, s2)

\* _levenshtein_similarity; the float is kept as <<numerator, denominator>>,
\* 1.0 - distance / max_len being (max_len - distance) / max_len.
levenshtein_similarity(s1, s2) ==
    IF s1 = s2 THEN <<1, 1>>
    ELSE IF Len(s1) = 0 \/ Len(s2) = 0 THEN <<0, 1>>
    ELSE LET distance == levenshtein_distance(s1, s2)
             max_len == Max(Len(s1), Len(s2))
         IN  <<max_len - distance, max_len>>

\* The two strings are the names of features 0 and 1.
InitLevenshtein ==
    /\ \E s1 \in LevStrings, s2 \in LevStrings :
          layer = Layer(TRUE, 0, AllFids, DefaultGeom,
                        [f \in Fids |-> [name |-> IF f = 0 THEN StrValue(s1, None)
                                                  ELSE IF f = 1 THEN StrValue(s2, None)
                                                  ELSE NameA,
                                         rank |-> IntValue(1)]], TRUE)
    /\ config = [DefaultConfig EXCEPT !.detection_type = "attribute", !.fields = <<"name">>]
    /\ pc = "levenshtein"
    /\ features = <<>>
    /\ spatial_index = NoIndex
    /\ feature_cache = {}
    /\ stored_groups = <<>>
    /\ groups = <<>>
    /\ processed = {}
    /\ score = None
    /\ scanPos = 1
    /\ progress = <<>>
    /\ returned = <<>>
    /\ runs = 0
    /\ firstResult = <<>>
    /\ consolidated = <<>>
    /\ feature_to_group = ZeroMap
    /\ pending = <<>>
    /\ nIn = 0
    /\ cur = <<>>

\* checker._levenshtein_distance(s1, s2), the same with the arguments
\* exchanged, and checker._levenshtein_similarity(s1, s2), and what they return.
Levenshtein ==
    /\ pc = "levenshtein"
    /\ LET s1 == layer.attr[0].name.text
           s2 == layer.attr[1].name.text
       IN  returned' = <<[distance |-> levenshtein_distance(s1, s2),
                          reverse |-> levenshtein_distance(s2, s1),
                          similarity |-> levenshtein_similarity(s1, s2)]>>
    /\ pc' = "levenshtein_done"
    /\ UNCHANGED <<envVars, scanVars, consVars, features, spatial_index, feature_cache,
                   stored_groups, progress, runs, firstResult>>

NextLevenshtein == Levenshtein

SpecLevenshtein == InitLevenshtein /\ [][NextLevenshtein]_vars


\* ------------------------- detect() twice, the source iterating differently
\* Tolerance runs with the centroid method over the point layers.
OrderRuns ==
    PointLayers \X {[DefaultConfig EXCEPT !.tolerance = t, !.compare_method = 1] : t \in {1, 2}}

InitOrder ==
    /\ \E run \in OrderRuns : layer = run[1] /\ config = run[2]
    /\ pc = "idle"
    /\ features = <<>>
    /\ spatial_index = NoIndex
    /\ feature_cache = {}
    /\ stored_groups = <<>>
    /\ groups = <<>>
    /\ processed = {}
    /\ score = None
    /\ scanPos = 1
    /\ progress = <<>>
    /\ returned = <<>>
    /\ runs = 0
    /\ firstResult = <<>>
    /\ consolidated = <<>>
    /\ feature_to_group = ZeroMap
    /\ pending = <<>>
    /\ nIn = 0
    /\ cur = <<>>

\* The orders in which a feature source may hand out the features q.
Orderings(q) ==
    {p \in [DOMAIN q -> SeqToSet(q)] : \A i, j \in DOMAIN q : p[i] = p[j] => i = j}

\* The caller runs detect() a second time on the same data and settings;
\* layer.getFeatures() (lines 142, 184) iterates in whatever order the
\* provider gives this time.
DetectReordered ==
    /\ pc = "done"
    /\ runs < 2
    /\ pc' = "idle"
    /\ progress' = <<>>
    /\ \E p \in Orderings(layer.fids) : layer' = [layer EXCEPT !.fids = p]
    /\ UNCHANGED <<config, scanVars, consVars, features, spatial_index, feature_cache,
                   stored_groups, returned, runs, firstResult>>

NextOrder ==
    \/ DetectBegin
    \/ BuildIndex
    \/ ScanFeature
    \/ ScanReturn
    \/ ResolvePriorities
    \/ ConsolidateNext
    \/ DetectReturn
    \/ DetectReordered

SpecOrder == InitOrder /\ [][NextOrder]_vars


\* detect() on a layer, or _consolidate_groups on a list of the caller's.
InitAll == Init \/ InitConsolidate
NextAll == Next \/ NextConsolidate
SpecAll == InitAll /\ [][NextAll]_vars

\* ============================================================== properties
GroupIds(q) == {q[i].feature_ids : i \in DOMAIN q}
PairwiseDisjoint(q) ==
    \A i, j \in DOMAIN q : i # j => q[i].feature_ids \cap q[j].feature_ids = {}
KeepIsMember(q) ==
    \A i \in DOMAIN q :
        q[i].suggested_keep = None \/ q[i].suggested_keep \in q[i].feature_ids
SamplingInEffect == config.sample_mode /\ Len(layer.fids) > config.sample_size

\* C1: for every list of input groups, the groups _consolidate_groups returns
\* are pairwise disjoint (a feature id belongs to at most one of them).
C1_ConsolidatedDisjoint == pc = "consolidated" => PairwiseDisjoint(returned)

\* C2: for every layer and configuration, any two distinct groups returned by
\* detect() have disjoint feature_ids sets.
C2_DetectPartition == pc = "done" => PairwiseDisjoint(returned)
\* detect() returned two groups found by the tolerance scan.
C2_TwoGroupsReturned ==
    pc = "done" /\ config.tolerance > 0 /\ Len(returned) = 2

\* C3: every group returned by detect(), in every mode, has at least two
\* distinct feature ids.
C3_AtLeastTwoMembers ==
    pc = "done" => \A i \in DOMAIN returned : Cardinality(returned[i].feature_ids) >= 2
\* detect() in attribute mode returned a group of exactly two features and left
\* the other features of the layer out of every group.
C3_PairReturned ==
    /\ pc = "done"
    /\ config.detection_type = "attribute"
    /\ Len(returned) = 1
    /\ Cardinality(returned[1].feature_ids) = 2

C5_MatchScoreConfidence ==
    (pc = "done" /\ config.detection_type = "geometry" /\ config.tolerance > 0
        /\ config.compare_method = 1)
    => \A i \in DOMAIN returned :
          /\ ScoreOne \div 2 <= returned[i].confidence_score
          /\ returned[i].confidence_score <= ScoreOne

\* C6: a second detect() on the unchanged layer with the same configuration,
\* sample_mode included, returns groups with the same feature_ids sets.
C6_SecondRunIdentical ==
    (pc = "done" /\ runs = 2) => GroupIds(returned) = GroupIds(firstResult)
\* C6, amended: when no sample is drawn (sample_mode off, or the layer has no
\* more features than sample_size), the second detect() returns groups with
\* the same feature_ids sets as the first.
C6_SecondRunIdenticalUnsampled ==
    (pc = "done" /\ runs = 2 /\ ~SamplingInEffect)
    => GroupIds(returned) = GroupIds(firstResult)
\* The second run returned groups found by the tolerance scan, without sampling.
C6_SecondRunFoundGroups ==
    /\ pc = "done"
    /\ runs = 2
    /\ ~SamplingInEffect
    /\ config.tolerance > 0
    /\ returned # <<>>

\* The resolver's view of the one group being resolved.
ResolvedIds == groups[1].feature_ids
ResolvedCandidates == getFeatures(layer, ResolvedIds)
FieldAnswer == field_result(layer, config.priority_rules, ResolvedCandidates)
CompletenessAnswer == completeness_result(layer, config.priority_rules, ResolvedCandidates)
AreaAnswer == area_result(layer, config.priority_rules, ResolvedCandidates)
FewestNulls ==
    {fid \in ResolvedIds : \A o \in ResolvedIds : NullCount(layer, fid) <= NullCount(layer, o)}

\* C7: the first rule in the order field, completeness, area, id fallback that
\* yields an answer wins: a candidate the field rule selects is suggested_keep
\* whatever the other settings, and a completeness answer is not overridden
\* by the area rule or the fallback; for every feature id, 0 included.
C7_FirstAnswerWins ==
    pc = "resolved" =>
        /\ FieldAnswer # None => groups[1].suggested_keep = FieldAnswer
        /\ (FieldAnswer = None /\ CompletenessAnswer # None)
              => groups[1].suggested_keep = CompletenessAnswer

\* C8: with completeness enabled and the field rule absent or undecided, the
\* single member with the fewest null values is suggested_keep, for any
\* feature ids and any area / fid_fallback setting; on a tie the decision
\* passes to the next rule.
C8_FewestNullsKept ==
    (pc = "resolved" /\ config.priority_rules.completeness /\ FieldAnswer = None)
    => IF Cardinality(FewestNulls) = 1
       THEN groups[1].suggested_keep \in FewestNulls
       ELSE groups[1].suggested_keep =
                IF AreaAnswer # None THEN AreaAnswer
                ELSE IF config.priority_rules.fid_fallback THEN SetMin(ResolvedIds)
                ELSE None

\* C9: when no earlier rule decides for a group of at least two features,
\* suggested_keep is the smallest feature id of the group with fid_fallback
\* enabled and stays unset with fid_fallback disabled.
C9_Fallback ==
    (pc = "resolved" /\ Cardinality(ResolvedIds) >= 2
        /\ FieldAnswer = None /\ CompletenessAnswer = None /\ AreaAnswer = None)
    => groups[1].suggested_keep =
          IF config.priority_rules.fid_fallback THEN SetMin(ResolvedIds) ELSE None
\* The field rule found only nulls, the completeness rule a tie, and the
\* fallback chose the smallest id of a group that has a larger one.
C9_FallbackChose ==
    /\ pc = "resolved"
    /\ config.priority_rules.field = "rank"
    /\ config.priority_rules.completeness
    /\ config.priority_rules.fid_fallback
    /\ FieldAnswer = None /\ CompletenessAnswer = None /\ AreaAnswer = None
    /\ ResolvedIds = {1, 2}
    /\ groups[1].suggested_keep = 1

\* C10: in every group detect() returns with priority rules configured, and in
\* every group _consolidate_groups returns for a list of resolved groups,
\* suggested_keep is unset or a member of the group's feature_ids.
C10_KeepIsMember ==
    /\ KeepIsMember(returned)
    /\ KeepIsMember(consolidated)
\* A consolidation merged a group into a resolved one whose suggested_keep is
\* set, and returned it.
C10_MergedKeepsSuggestion ==
    /\ pc = "consolidated"
    /\ nIn = 2
    /\ Len(returned) = 1
    /\ returned[1].suggested_keep # None
    /\ returned[1].feature_ids # cur.feature_ids


\* C11: when the group taken by consolidation shares a member with an accepted
\* group, no group is added: one accepted group sharing a member with it takes
\* the union of both id sets and the minimum of both confidences, and every
\* other accepted group is left as it was.
C11_MergeIsUnionAndMin ==
    [][(nIn' = nIn + 1
          /\ \E k \in DOMAIN consolidated :
                consolidated[k].feature_ids \cap cur'.feature_ids # {})
       => /\ Len(consolidated') = Len(consolidated)
          /\ \E k \in DOMAIN consolidated :
                /\ consolidated[k].feature_ids \cap cur'.feature_ids # {}
                /\ consolidated'[k].feature_ids =
                       consolidated[k].feature_ids \cup cur'.feature_ids
                /\ consolidated'[k].confidence_score =
                       Min(consolidated[k].confidence_score, cur'.confidence_score)
                /\ \A j \in DOMAIN consolidated \ {k} : consolidated'[j] = consolidated[j]]_vars
\* Three groups were merged into one group {0,1,2}; the last had confidence
\* 1.0, and the merged group keeps the 0.5 of an earlier one.
C11_ThreeMerged ==
    /\ pc = "consolidate"
    /\ nIn = 3
    /\ Len(consolidated) = 1
    /\ consolidated[1].feature_ids = {0, 1, 2}
    /\ cur.feature_ids = {0, 2}
    /\ cur.confidence_score = ScoreOne
    /\ consolidated[1].confidence_score = ScoreOne \div 2


\* The features detect() works on, and whether two of them share a returned group.
InScope == SeqToSet(features)
Grouped(f) == \E i \in DOMAIN returned : f \in returned[i].feature_ids
SameGroup(f, g) == \E i \in DOMAIN returned : {f, g} \subseteq returned[i].feature_ids

\* C12: with tolerance 0, whatever the compare method, two in-scope features
\* with a geometry share a returned group iff their geometry hashes are equal;
\* a feature whose hash no other feature has is in no group; every group has
\* confidence 1.0.
C12_HashGroups ==
    (pc = "done" /\ config.detection_type = "geometry" /\ config.tolerance = 0)
    => /\ \A f, g \in {h \in InScope : ~isNull(layer.geom[h])} :
              f # g => (SameGroup(f, g)
                          <=> hash_geometry(layer.geom[f]) = hash_geometry(layer.geom[g]))
       /\ \A f \in Fids :
              Grouped(f) => /\ f \in InScope
                            /\ ~isNull(layer.geom[f])
                            /\ \E g \in InScope \ {f} :
                                  /\ ~isNull(layer.geom[g])
                                  /\ hash_geometry(layer.geom[f]) = hash_geometry(layer.geom[g])
       /\ \A i \in DOMAIN returned : returned[i].confidence_score = ScoreOne
\* With the centroid method configured and tolerance 0, three features with
\* one hash were returned as one group and the fourth feature is in none.
C12_ThreeOfFour ==
    /\ pc = "done"
    /\ config.detection_type = "geometry"
    /\ config.tolerance = 0
    /\ config.compare_method = 1
    /\ Len(returned) = 1
    /\ Cardinality(returned[1].feature_ids) = 3
    /\ \E f \in InScope : ~isNull(layer.geom[f]) /\ ~Grouped(f)


\* The comparison key detect() computes for a feature.
KeyOf(f) ==
    get_key(layer, config.fields, config.normalize_attributes, config.ignore_null, f)
\* The words of a string: its maximal runs of characters other than spaces,
\* letters taken in lower case.
RECURSIVE WordEnd(_, _)
WordEnd(s, n) == IF n < Len(s) /\ s[n + 1] # " " THEN WordEnd(s, n + 1) ELSE n
RECURSIVE Words(_)
Words(s) ==
    IF s = <<>> THEN <<>>
    ELSE IF s[1] = " " THEN Words(Tail(s))
    ELSE LET n == WordEnd(s, 1)
         IN  <<[i \in 1 .. n |-> LowerChar(s[i])]>> \o Words(SubSeq(s, n + 1, Len(s)))
\* Two values are strings that differ at most in letter case and whitespace.
CaseSpaceAlike(v, w) == v.type = "str" /\ w.type = "str" /\ Words(v.text) = Words(w.text)

\* C13: in attribute detection two in-scope features that both produce a key
\* share a returned group iff their keys are equal; with normalize enabled,
\* features whose configured values are strings differing only in letter case
\* and in leading, trailing or repeated inner whitespace share a group; every
\* group has confidence 1.0.
C13_KeyGroups ==
    (pc = "done" /\ config.detection_type = "attribute")
    => /\ \A f, g \in {h \in InScope : ~KeyOf(h).none} :
              f # g => (SameGroup(f, g) <=> KeyOf(f) = KeyOf(g))
       /\ config.normalize_attributes =>
              \A f, g \in InScope :
                  (f # g /\ \A i \in DOMAIN config.fields :
                                CaseSpaceAlike(FieldValue(layer, f, config.fields[i]),
                                               FieldValue(layer, g, config.fields[i])))
                  => SameGroup(f, g)
       /\ \A i \in DOMAIN returned : returned[i].confidence_score = ScoreOne
\* With normalize enabled the three spellings "a b", "A B", " a  b " were
\* returned as one group and the feature named "b" is in none.
C13_ThreeSpellings ==
    /\ pc = "done"
    /\ config.detection_type = "attribute"
    /\ config.fields = <<"name">>
    /\ config.normalize_attributes
    /\ layer.attr[0].name.text = <<"a", " ", "b">>
    /\ layer.attr[1].name.text = <<" ", "a", " ", " ", "b", " ">>
    /\ layer.attr[2].name.text = <<"A", " ", "B">>
    /\ layer.attr[3].name.text = <<"b">>
    /\ Len(returned) = 1
    /\ returned[1].feature_ids = {0, 1, 2}


\* A feature has a null (or missing) value in a configured field.
HasNullField(f) ==
    \E i \in DOMAIN config.fields : FieldValue(layer, f, config.fields[i]).type = "null"

\* C14: with ignore_null enabled a feature with a null or missing value in a
\* configured field is in no attribute group; with ignore_null disabled two
\* features whose configured fields are null in the same positions and
\* otherwise equal share a group.
C14_NullHandling ==
    (pc = "done" /\ config.detection_type = "attribute")
    => IF config.ignore_null
       THEN \A f \in Fids : HasNullField(f) => ~Grouped(f)
       ELSE \A f, g \in InScope :
                (f # g /\ HasNullField(f)
                   /\ \A i \in DOMAIN config.fields :
                         FieldValue(layer, f, config.fields[i])
                             = FieldValue(layer, g, config.fields[i]))
                => SameGroup(f, g)
\* With ignore_null disabled two features with the same name and a null rank
\* were grouped, apart from a feature with that name and a rank.
C14_NullsGrouped ==
    /\ pc = "done"
    /\ config.detection_type = "attribute"
    /\ config.fields = <<"name", "rank">>
    /\ ~config.ignore_null
    /\ layer.attr[0] = layer.attr[1]
    /\ layer.attr[0].rank.type = "null"
    /\ layer.attr[0].name.type = "str"
    /\ layer.attr[2].name = layer.attr[0].name
    /\ layer.attr[2].rank.type = "int"
    /\ SameGroup(0, 1)
    /\ ~SameGroup(0, 2)

\* C15: for all geometries A and B, null ones included, with multipart
\* decomposition enabled or disabled, hash_geometry(A) = hash_geometry(B)
\* exactly when compare(A, B, tolerance 0, 'wkb') reports a match with score 1.0.
C15_HashIffCompare ==
    pc = "compared" =>
        (returned[1].hash1 = returned[1].hash2
            <=> (returned[1].result.match /\ returned[1].result.score = ScoreOne))

\* The stored result before the call in progress: [] after construction, the
\* first call's groups after it.
ResultBefore == IF runs = 0 THEN <<>> ELSE firstResult
NoFields == config.detection_type # "geometry" /\ config.fields = <<>>

\* C16: with an invalid layer, or with attribute detection and no field,
\* detect() never completes and returns nothing (it stops at the check that
\* raises), and once it has raised, self._groups and the last returned list
\* are what they were before the call.
C16_ErrorLeavesResult ==
    /\ ~layer.valid => pc \in {"idle", "error"}
    /\ NoFields => pc \in {"idle", "indexing", "scanning", "error"}
    /\ pc = "error" =>
          /\ stored_groups = ResultBefore
          /\ returned = ResultBefore
          /\ get_statistics(layer, config, stored_groups)
                = get_statistics(layer, config, ResultBefore)

\* A second call fails for want of fields after a first call stored groups.
C16_ErrorAfterResult ==
    /\ pc = "error"
    /\ NoFields
    /\ layer.valid
    /\ runs = 1
    /\ stored_groups # <<>>

\* C17: the values handed to the progress callback during a detect() run
\* never decrease and lie in 0..100, the first is 0, and a call that
\* completes has reported 100 last; the values the scan loop computes for its
\* positions lie between the 20 before it and the 70 after it, in order.
C17_ProgressMonotone ==
    /\ \A i \in DOMAIN progress : progress[i] \in 0 .. 100
    /\ \A i \in 1 .. Len(progress) - 1 : progress[i] <= progress[i + 1]
    /\ progress # <<>> => progress[1] = 0
    /\ (config.progress_callback # "none" /\ pc \notin {"idle", "error"}) => progress # <<>>
    /\ (config.progress_callback # "none" /\ pc = "done") => progress[Len(progress)] = 100
    /\ \A i, j \in 0 .. Len(features) - 1 :
          i <= j => /\ 20 <= ScanProgress(i, Len(features))
                    /\ ScanProgress(i, Len(features)) <= ScanProgress(j, Len(features))
                    /\ ScanProgress(j, Len(features)) <= 70

\* A sampled run that reported at every point, the scan loop included.
C17_FullBar == pc = "done" /\ progress = <<0, 5, 10, 20, 20, 70, 90, 100>>

\* C18: progress reporting never fails the run: no call of detect() is ended
\* by an error the progress callback raised.
C18_ReportNeverFails == pc # "callback_error"

\* C19: after every detect() that completed, a run without duplicates
\* included, get_statistics() is a record whose feature count is the layer's,
\* whose group count is the number of returned groups, whose duplicate
\* feature count is the number of members over all returned groups, and whose
\* duplication_rate is duplicate features / total features, within 0..1.
C19_Statistics ==
    pc = "done" =>
        LET st == get_statistics(layer, config, stored_groups)
            members == Sum([k \in DOMAIN returned |-> Cardinality(returned[k].feature_ids)])
        IN  /\ ~st.empty
            /\ st.total_features = Len(layer.fids)
            /\ st.duplicate_groups = Len(returned)
            /\ st.duplicate_features = members
            /\ st.duplication_rate[1] * Len(layer.fids) = members * st.duplication_rate[2]
            /\ 0 <= st.duplication_rate[1]
            /\ st.duplication_rate[1] <= st.duplication_rate[2]

\* C20: once detect() has chosen its features (before it builds the index
\* and scans), they are, when sample_mode is set and the layer has more than
\* sample_size features, exactly sample_size different feature ids of the
\* layer, and otherwise all the layer's features; the choice stays as it is
\* to the end of the call, and every member of every returned group is one
\* of the chosen features.
C20_SampleScope ==
    /\ [](pc \in {"indexing", "scanning", "resolving", "consolidating", "done"} =>
            /\ IF SamplingInEffect
               THEN /\ Len(features) = config.sample_size
                    /\ Cardinality(InScope) = Len(features)
                    /\ InScope \subseteq SeqToSet(layer.fids)
               ELSE features = layer.fids
            /\ pc = "done" => \A k \in DOMAIN returned : returned[k].feature_ids \subseteq InScope)
    /\ [][pc' # "indexing" => features' = features]_vars

\* A sampled run returned a group, and a feature left out of the sample has
\* the geometry of one of the group's members.
C20_SampledGroup ==
    /\ pc = "done"
    /\ SamplingInEffect
    /\ returned # <<>>
    /\ \E f \in SeqToSet(layer.fids) \ InScope :
          \E g \in returned[1].feature_ids : layer.geom[f] = layer.geom[g]

\* C21: once detect() has returned, the detector holds no spatial index and
\* no cached features of the run.
C21_IndexDiscarded == pc = "done" => (spatial_index = NoIndex /\ feature_cache = {})

\* The strings one insertion, deletion or substitution away from s (no longer
\* than MaxStrLen), those within k such edits, and the least number of edits
\* that turns s into t.
OneEdit(s) ==
    {SubSeq(s, 1, i) \o <<c>> \o SubSeq(s, i + 1, Len(s)) :
        i \in (IF Len(s) < MaxStrLen THEN 0 .. Len(s) ELSE {}), c \in LevAlphabet}
    \cup {SubSeq(s, 1, i - 1) \o SubSeq(s, i + 1, Len(s)) : i \in 1 .. Len(s)}
    \cup {[s EXCEPT ![i] = c] : i \in 1 .. Len(s), c \in LevAlphabet}
RECURSIVE Within(_, _)
Within(s, k) ==
    IF k = 0 THEN {s}
    ELSE LET W == Within(s, k - 1) IN W \cup UNION {OneEdit(w) : w \in W}
MinEdits(s, t) ==
    CHOOSE k \in 0 .. MaxStrLen : t \in Within(s, k) /\ \A m \in 0 .. k - 1 : t \notin Within(s, m)

\* C22: _levenshtein_distance(s1, s2) is the least number of single-character
\* insertions, deletions and substitutions that turn s1 into s2: 0 for equal
\* strings, the other string's length against the empty string, the same with
\* the arguments exchanged; _levenshtein_similarity of equal strings is 1.0.
C22_Levenshtein ==
    pc = "levenshtein_done" =>
        LET s1 == layer.attr[0].name.text
            s2 == layer.attr[1].name.text
            r == returned[1]
        IN  /\ r.distance = MinEdits(s1, s2)
            /\ s1 = s2 => (r.distance = 0 /\ r.similarity = <<1, 1>>)
            /\ s1 = <<>> => r.distance = Len(s2)
            /\ s2 = <<>> => r.distance = Len(s1)
            /\ r.distance = r.reverse

\* Strings of different lengths that need a substitution and a deletion.
C22_MixedEdits ==
    /\ pc = "levenshtein_done"
    /\ layer.attr[0].name.text = <<"a", "b">>
    /\ layer.attr[1].name.text = <<"b", "a", "a">>
    /\ returned[1].distance = 2

\* The in-scope features without geometry.
NullFeatures == {f \in InScope : isNull(layer.geom[f])}
HashRun == config.detection_type = "geometry" /\ config.tolerance = 0

\* C23: in exact-hash detection (tolerance 0) two features that both have a
\* null geometry are placed together in one group.
C23_NullsGroupedByHash ==
    (pc = "done" /\ HashRun) =>
        \A f, g \in NullFeatures : f # g => SameGroup(f, g)

\* C23, as the code has it: two null geometries have the same hash (the
\* sentinel), but exact-hash detection passes over every feature without
\* geometry, so such a feature is in no returned group.
C23_NullsSkippedByHash ==
    (pc = "done" /\ HashRun) =>
        \A f, g \in NullFeatures :
            /\ hash_geometry(layer.geom[f]) = hash_geometry(layer.geom[g])
            /\ ~Grouped(f)

\* A hash run over two features without geometry and two equal points.
C23_TwoNullsTwoPoints ==
    /\ pc = "done"
    /\ HashRun
    /\ Cardinality(NullFeatures) = 2
    /\ Len(returned) = 1
    /\ Cardinality(returned[1].feature_ids) = 2

\* C24: for tolerance-based detection on fixed data and settings, the
\* collection of feature_ids sets detect() returns is the same whatever the
\* order in which the source iterates the features.
C24_OrderIndependent ==
    (pc = "done" /\ runs = 2) => GroupIds(returned) = GroupIds(firstResult)

\* C25: a pass of the tolerance scan that makes a group makes it of its seed
\* (the first feature in iteration order with a geometry that is not yet
\* assigned) and exactly the not-yet-assigned candidates of the index that
\* compare(seed, c, tolerance) matched; the members are marked assigned, and
\* none of them is in an earlier group.
C25_SeedGroups ==
    [][(pc = "scanning" /\ pc' = "scanning" /\ groups' # groups) =>
          LET seed == features[scanPos]
              g == groups'[Len(groups')]
              matched == {c \in intersects(layer, spatial_index, seed, config.tolerance) :
                             /\ c # seed
                             /\ c \notin processed
                             /\ CompareWith(layer, config, seed, c).match}
          IN  /\ groups' = Append(groups, g)
              /\ seed \notin processed
              /\ ~isNull(layer.geom[seed])
              /\ \A j \in 1 .. scanPos - 1 :
                    features[j] \in processed \/ isNull(layer.geom[features[j]])
              /\ matched # {}
              /\ g.feature_ids = {seed} \cup matched
              /\ processed' = processed \cup g.feature_ids
              /\ \A k \in DOMAIN groups : groups[k].feature_ids \cap g.feature_ids = {}]_vars

\* A returned group of the tolerance scan with two members that do not match
\* each other (each matches the seed).
C25_MembersApart ==
    /\ pc = "done"
    /\ config.detection_type = "geometry"
    /\ config.tolerance # 0
    /\ \E k \in DOMAIN returned :
          \E a, b \in returned[k].feature_ids :
              /\ ~CompareWith(layer, config, a, b).match
              /\ ~CompareWith(layer, config, b, a).match

\* C26: for a fixed group, fixed feature data and fixed rules, the
\* suggested_keep that _resolve_group chooses is the same whatever the order
\* in which the layer returns the group's features, ties on the field value
\* or on the area included.
C26_KeepOrderIndependent ==
    pc = "resolved" =>
        \A p \in Orderings(layer.fids) :
            resolve_group([layer EXCEPT !.fids = p], config.priority_rules, groups[1])
                = groups[1].suggested_keep

\* The feature_ids set and the confidence score of every group of a list.
IdsAndScores(q) ==
    [i \in DOMAIN q |-> <<q[i].feature_ids, q[i].confidence_score>>]

\* C27: _consolidate_groups applied to the list it returned gives the same
\* groups back, with the same feature_ids sets and confidence scores.
C27_Idempotent ==
    pc = "reconsolidated" => IdsAndScores(returned) = IdsAndScores(firstResult)

\* C28: within a detect() run the groups of the detection pass (after the
\* resolver) are pairwise disjoint, so consolidation merges nothing: it
\* accepts them one by one, and detect() returns the same groups, in the same
\* order, with the same feature_ids and confidence scores.
C28_ConsolidationKeepsList ==
    /\ pc \in {"consolidating", "done"} =>
          /\ PairwiseDisjoint(groups)
          /\ consolidated = SubSeq(groups, 1, nIn)
    /\ pc = "done" => returned = groups

\* A run with priority rules returned the two groups of its scan.
C28_TwoGroupsKept ==
    /\ pc = "done"
    /\ config.priority_rules.given
    /\ Len(groups) = 2
    /\ returned = groups
    /\ groups[1].suggested_keep # None

\* What a merge leaves alone in a group.
Description(g) == <<g.detection_type, g.match_reason, g.metadata, g.suggested_keep>>

\* C29: a step of consolidation leaves detection_type, match_reason, metadata
\* and suggested_keep of every accepted group as they were (a merge changes
\* feature_ids and confidence_score of the absorbing group only, and nothing
\* of the absorbed group but its ids and confidence goes into it); a group
\* that is not merged is appended unchanged at the end, so the accepted
\* groups stay in input order.
C29_MergeFrame ==
    [][nIn' = nIn + 1 =>
          /\ \A j \in DOMAIN consolidated :
                /\ j \in DOMAIN consolidated'
                /\ Description(consolidated'[j]) = Description(consolidated[j])
          /\ \/ Len(consolidated') = Len(consolidated)
             \/ consolidated' = Append(consolidated, cur')]_vars

\* A group with a suggestion and metadata of its own was merged into a group
\* that has others; a group accepted after it follows in the list.
C29_AbsorbedDropped ==
    /\ pc = "consolidate"
    /\ nIn = 3
    /\ Len(consolidated) = 2
    /\ cur.feature_ids \subseteq consolidated[1].feature_ids
    /\ cur.suggested_keep # None
    /\ consolidated[1].suggested_keep # cur.suggested_keep
    /\ consolidated[1].metadata # cur.metadata
    /\ consolidated[1].detection_type # cur.detection_type

\* C30: when detect() runs with no priority_rules (the empty dict), the
\* resolver is skipped and every returned group has suggested_keep unset,
\* although the rules' fid_fallback defaults to on; a returned group has a
\* suggested_keep only when rules were supplied.
C30_NoRulesNoSuggestion ==
    pc = "done" =>
        /\ ~config.priority_rules.given =>
              \A k \in DOMAIN returned : returned[k].suggested_keep = None
        /\ (\E k \in DOMAIN returned : returned[k].suggested_keep # None) =>
              config.priority_rules.given

\* A run without rules returned groups; the fallback default is on.
C30_DefaultRunReturned ==
    /\ pc = "done"
    /\ ~config.priority_rules.given
    /\ config.priority_rules.fid_fallback
    /\ Len(returned) = 2
    /\ returned[1].suggested_keep = None

==========================================================================
